---- MODULE Spec2Model ----
(***************************************************************************)
(* doc_loader (src/skills/doc_loader/doc_loader.py): the recursive web     *)
(* crawler, the repository markdown extractor, the concurrent fetch        *)
(* coordinator, the persisted vector index and the session guard.          *)
(*                                                                         *)
(* Text (URLs, hrefs, command lines) is a sequence of one-character        *)
(* strings, so that prefix, substring and split tests are computed the way *)
(* the Python code computes them.                                          *)
(***************************************************************************)
EXTENDS Integers, Sequences, FiniteSets, TLC

VARIABLES
    \* ---- one traversal of scrape_url_recursive ----
    crawlPc,      \* "idle" | "running" | "done"
    croot,        \* the root URL of the traversal
    max_depth,    \* the max_depth argument of the traversal
    visited,      \* the visited set shared by the recursion
    stack,        \* the active calls: <<[url, depth, links, docs]>>, top last
    crawlDocs,    \* the list the outermost call returned
    plan,         \* the web: what the page at each path level serves
    processed,    \* history: <<[url, depth]>> of the calls that passed line 90
    rejected,     \* history: the calls that returned at line 90
    \* ---- the process and the disk ----
    mainPc,       \* "idle" | "scraping" | "shutdown" | "exited"
    flag,         \* SCRAPE_ALREADY_RAN
    index,        \* PERSIST_DIR: [exists, entries]
    workspace,    \* /tmp/doc_loader_git: [exists, repo, full, owner]; owner is
                  \* the task of the running pool whose clone made it
    request,      \* argv of the call of main() in progress, or of the last one
    urls,         \* the parsed source list of the ingestion
    fate,         \* what the outside world does to each source of the ingestion
    wpc,          \* where each smart_scrape task of the pool is
    wdocs,        \* md_docs of each task
    wvisited,     \* visited of each task's outermost scrape_url_recursive call
    wres,         \* what each task returned
    collected,    \* how many results the loop of line 250 has consumed
    all_chunks,   \* all_chunks
    out,          \* the JSON result printed by the call of main()
    indexAtStart  \* history: PERSIST_DIR when the call of main() began

crawlVars == <<crawlPc, croot, max_depth, visited, stack, crawlDocs, plan,
               processed, rejected>>

procVars == <<mainPc, flag, index, workspace, request, urls, fate, wpc, wdocs, wvisited,
              wres, collected, all_chunks, out, indexAtStart>>

vars == <<crawlVars, procVars>>

(***************************************************************************)
(* Bounds of the model.                                                    *)
(***************************************************************************)
\* Pages deeper than this path level serve what the page at this level serves.
MaxLevel == 3
\* No URL longer than this is fetched (the crawl never gets there).
MaxUrlLen == 16

(***************************************************************************)
(* Text helpers.                                                           *)
(***************************************************************************)
MinOf(S) == CHOOSE x \in S : \A y \in S : x <= y

\* str.startswith
StartsWith(s, p) == Len(s) >= Len(p) /\ SubSeq(s, 1, Len(p)) = p

\* The positions at which p occurs in s (a is the pair, evaluated once).
Occurrences(s, p) ==
    UNION {{i \in 1..(Len(a.s) - Len(a.p) + 1) :
                SubSeq(a.s, i, i + Len(a.p) - 1) = a.p} : a \in {[s |-> s, p |-> p]}}

\* Python's `p in s` on strings.
Contains(s, p) == Len(p) = 0 \/ Occurrences(s, p) # {}

\* s.split(p)[0]
Before(s, p) ==
    IF Occurrences(s, p) = {} THEN s
    ELSE SubSeq(s, 1, MinOf(Occurrences(s, p)) - 1)

\* What follows the first occurrence of p in s (p occurs in s).
After(s, p) == SubSeq(s, MinOf(Occurrences(s, p)) + Len(p), Len(s))

SEP == <<":", "/", "/">>
SLASH == <<"/">>

\* url.split("://")[1] raises IndexError when "://" does not occur.
HasSep(url) == Occurrences(url, SEP) # {}

\* url.split("://")[1].split("/")[0]
HostOf(url) == Before(Before(After(url, SEP), SEP), SLASH)

\* urljoin(url, link) for a link that starts with "/", on an absolute url.
UrlJoin(url, link) ==
    IF StartsWith(link, <<"/", "/">>)
    THEN Before(url, <<":">>) \o <<":">> \o link
    ELSE Before(url, <<":">>) \o SEP \o Before(After(url, SEP), SLASH) \o link

(***************************************************************************)
(* The web the crawler runs against.                                       *)
(***************************************************************************)
U_ab  == <<"h", ":", "/", "/", "a", "b", "/">>
U_cab == <<"h", ":", "/", "/", "c", "a", "b", "/">>
U_cd  == <<"h", ":", "/", "/", "c", "d", "/">>
U_cd_ab == <<"h", ":", "/", "/", "c", "d", "/", "a", "b">>
H_rel == <<"y">>

Roots == {U_ab, U_cab}

\* The path of an absolute URL ("/" when it has none).
PathOf(url) ==
    LET r == After(url, SEP)
    IN  IF Occurrences(r, SLASH) = {} THEN SLASH
        ELSE SubSeq(r, MinOf(Occurrences(r, SLASH)), Len(r))

Level(url) ==
    LET n == Len(PathOf(url)) - 1 IN IF n > MaxLevel THEN MaxLevel ELSE n

\* Root-relative hrefs to the page one, and two, levels below url.
Child(url) == PathOf(url) \o <<"x">>
Grandchild(url) == PathOf(url) \o <<"x", "x">>

\* What a page can serve: fetch is whether requests.get returns, links the
\* hrefs of its anchors in document order, load whether WebBaseLoader.load
\* returns, slen the length of its stripped text.
NumPages == 6
PageOf(k, url) ==
    CASE k = 1 -> [fetch |-> FALSE, links |-> <<>>, load |-> TRUE, slen |-> 60]
      [] k = 2 -> [fetch |-> TRUE, links |-> <<Child(url), U_ab>>,
                   load |-> FALSE, slen |-> 0]
      [] k = 3 -> [fetch |-> TRUE, links |-> <<url, Child(url)>>,
                   load |-> TRUE, slen |-> 51]
      [] k = 4 -> [fetch |-> TRUE, links |-> <<Child(url), Grandchild(url)>>,
                   load |-> TRUE, slen |-> 50]
      [] k = 5 -> [fetch |-> TRUE, links |-> <<U_cab, H_rel, Child(url)>>,
                   load |-> TRUE, slen |-> 600]
      [] OTHER -> [fetch |-> TRUE, links |-> <<U_cd, U_cd_ab>>,
                   load |-> TRUE, slen |-> 60]

\* requests.get(url) and WebBaseLoader(url).load() raise on a URL with no
\* scheme or no host, whatever the web serves.
Absolute(url) == HasSep(url) /\ Len(HostOf(url)) > 0

\* The page the web serves at url, the web being `p`.
Served(p, url) == PageOf(p[Level(url)], url)

(***************************************************************************)
(* scrape_url_recursive                                                    *)
(***************************************************************************)
DefaultMaxDepth == 3

\* Line 89 without the visited test.
Terminal_DepthOnly(url, vis, depth, maxd) == depth > maxd

\* Line 89: the terminal case.
Terminal(url, vis, depth, maxd) == url \in vis \/ depth > maxd

\* Line 91.
MarkVisited(vis, url) == vis \cup {url}

\* Line 108 passing depth on unchanged.
NextDepth_Same(depth) == depth

\* Line 108: the depth of the recursive call.
NextDepth(depth) == depth + 1

\* Line 97: the documents kept of what the loader returned.
KeptDocs(url, page) ==
    IF page.load /\ page.slen > 50
    THEN <<[url |-> url, slen |-> page.slen]>> ELSE <<>>

\* Lines 93-110 under a single try: a failed fetch loses the page's documents.
LoadDocs_OneTry(p, url) ==
    IF Absolute(url) /\ Served(p, url).fetch
    THEN KeptDocs(url, Served(p, url)) ELSE <<>>

\* Lines 93-99: a loader failure leaves docs empty.
LoadDocs(p, url) == IF Absolute(url) THEN KeptDocs(url, Served(p, url)) ELSE <<>>

\* Lines 100-103 and 109-110: the hrefs to iterate; none when the fetch raises.
FetchLinks(p, url) ==
    IF Absolute(url) /\ Served(p, url).fetch THEN Served(p, url).links ELSE <<>>

\* Lines 104-106: only a link that starts with "/" is joined to the page URL.
Resolve(url, href) == IF StartsWith(href, SLASH) THEN UrlJoin(url, href) ELSE href

\* Line 107: the host of the page being parsed occurs somewhere in the link.
Follows(url, link) == \E host \in {HostOf(url)} : Contains(link, host)

\* The frame of a call that passed line 90.
Frame(p, url, depth) ==
    [url |-> url, depth |-> depth, links |-> FetchLinks(p, url),
     docs |-> LoadDocs(p, url)]

\* The webs that agree with `plan` and say what url's level serves.
PlansFor(url) ==
    IF ~Absolute(url) \/ Level(url) \in DOMAIN plan THEN {plan}
    ELSE {plan @@ (Level(url) :> k) : k \in 1..NumPages}

Top == stack[Len(stack)]
TopLink == Resolve(Top.url, Head(Top.links))
Advanced == [stack EXCEPT ![Len(stack)].links = Tail(@)]

\* scrape_url_recursive(root, max_depth=d): the outermost call, visited = set().
CrawlStart ==
    /\ crawlPc = "idle"
    /\ \E root \in Roots, d \in 0..DefaultMaxDepth : \E p \in PlansFor(root) :
        /\ ~Terminal(root, {}, 0, d)
        /\ croot' = root
        /\ max_depth' = d
        /\ plan' = p
        /\ visited' = MarkVisited({}, root)
        /\ stack' = <<Frame(p, root, 0)>>
        /\ processed' = <<[url |-> root, depth |-> 0]>>
    /\ crawlPc' = "running"
    /\ UNCHANGED <<crawlDocs, rejected>>
    /\ UNCHANGED procVars

\* Lines 103-108, the link is recursed into and the call passes line 90.
FollowLink ==
    /\ crawlPc = "running" /\ Top.links # <<>>
    /\ \E link \in {TopLink} :
        /\ Follows(Top.url, link)
        /\ ~Terminal(link, visited, NextDepth(Top.depth), max_depth)
        /\ Len(link) <= MaxUrlLen
        /\ \E p \in PlansFor(link) :
            /\ plan' = p
            /\ stack' = Append(Advanced, Frame(p, link, NextDepth(Top.depth)))
        /\ visited' = MarkVisited(visited, link)
        /\ processed' = Append(processed,
                               [url |-> link, depth |-> NextDepth(Top.depth)])
    /\ UNCHANGED <<crawlPc, croot, max_depth, crawlDocs, rejected>>
    /\ UNCHANGED procVars

\* Lines 103-108, the link is recursed into and the call returns [] at line 90.
TerminalCall ==
    /\ crawlPc = "running" /\ Top.links # <<>>
    /\ \E link \in {TopLink} :
        /\ Follows(Top.url, link)
        /\ Terminal(link, visited, NextDepth(Top.depth), max_depth)
        /\ rejected' = Append(rejected,
                              [url |-> link, depth |-> NextDepth(Top.depth)])
    /\ stack' = Advanced
    /\ UNCHANGED <<crawlPc, croot, max_depth, visited, crawlDocs, plan, processed>>
    /\ UNCHANGED procVars

\* Lines 103-107, the link fails the test of line 107.
SkipLink ==
    /\ crawlPc = "running" /\ Top.links # <<>>
    /\ \E link \in {TopLink} : ~Follows(Top.url, link)
    /\ stack' = Advanced
    /\ UNCHANGED <<crawlPc, croot, max_depth, visited, crawlDocs, plan,
                   processed, rejected>>
    /\ UNCHANGED procVars

\* Line 111 of a recursive call: line 108 extends the caller's docs.
ReturnToCaller ==
    /\ crawlPc = "running" /\ Top.links = <<>> /\ Len(stack) > 1
    /\ stack' = [SubSeq(stack, 1, Len(stack) - 1)
                    EXCEPT ![Len(stack) - 1].docs = @ \o Top.docs]
    /\ UNCHANGED <<crawlPc, croot, max_depth, visited, crawlDocs, plan,
                   processed, rejected>>
    /\ UNCHANGED procVars

\* Line 111 of the outermost call.
CrawlReturn ==
    /\ crawlPc = "running" /\ Top.links = <<>> /\ Len(stack) = 1
    /\ crawlDocs' = Top.docs
    /\ stack' = <<>>
    /\ crawlPc' = "done"
    /\ UNCHANGED <<croot, max_depth, visited, plan, processed, rejected>>
    /\ UNCHANGED procVars

InitCrawl ==
    /\ crawlPc = "idle"
    /\ croot = <<>>
    /\ max_depth = DefaultMaxDepth
    /\ visited = {}
    /\ stack = <<>>
    /\ crawlDocs = <<>>
    /\ plan = <<>>
    /\ processed = <<>>
    /\ rejected = <<>>

NextCrawl ==
    \/ CrawlStart
    \/ FollowLink
    \/ TerminalCall
    \/ SkipLink
    \/ ReturnToCaller
    \/ CrawlReturn

(***************************************************************************)
(* Text of the command line and of the configuration.                      *)
(***************************************************************************)
SPACE == " "

\* str.lower on the letters the inputs use.
LowerChar(c) ==
    CASE c = "A" -> "a" [] c = "S" -> "s" [] c = "K" -> "k" [] c = "L" -> "l"
      [] c = "I" -> "i" [] c = "N" -> "n" [] c = "D" -> "d" [] c = "E" -> "e"
      [] c = "X" -> "x" [] OTHER -> c
Lower(s) == [i \in 1..Len(s) |-> LowerChar(s[i])]

\* str.strip
RECURSIVE LStrip(_)
LStrip(s) == IF s # <<>> /\ Head(s) = SPACE THEN LStrip(Tail(s)) ELSE s
RECURSIVE RStrip(_)
RStrip(s) ==
    IF s # <<>> /\ s[Len(s)] = SPACE THEN RStrip(SubSeq(s, 1, Len(s) - 1)) ELSE s
Strip(s) == RStrip(LStrip(s))

\* str.split(p): the pieces between the occurrences of p, left to right.
RECURSIVE Split(_, _)
Split(s, p) ==
    IF Occurrences(s, p) = {} THEN <<s>>
    ELSE <<Before(s, p)>> \o Split(After(s, p), p)

\* str.endswith
EndsWith(s, p) == Len(s) >= Len(p) /\ SubSeq(s, Len(s) - Len(p) + 1, Len(s)) = p

RECURSIVE Join(_, _)
Join(list, p) ==
    IF list = <<>> THEN <<>>
    ELSE IF Len(list) = 1 THEN list[1]
    ELSE list[1] \o p \o Join(Tail(list), p)

ASK == <<"a", "s", "k", ":">>
SCRAPE == <<"s", "c", "r", "a", "p", "e">>
LOAD == <<"l", "o", "a", "d">>
INDEX == <<"i", "n", "d", "e", "x">>
DOT_GIT == <<".", "g", "i", "t">>
DSO_HOST == <<"r", "e", "p", "o", "1", ".", "d", "s", "o", ".", "m", "i", "l">>
COMMA == <<",">>

\* sys.argv[1] of a call; NoArg is a call without it.
NoArg == <<"">>
Argv1 ==
    { NoArg,
      <<"a", "s", "k", ":", " ", "q">>,
      <<"A", "S", "K", ":", " ", "q">>,
      <<"A", "s", "k", ":", "a", "s", "k", ":", "q">>,
      <<"s", "c", "r", "a", "p", "e">>,
      <<" ", "L", "o", "a", "d", " ", "d", "o", "c", "s">>,
      <<"I", "N", "D", "E", "X">> }

\* The sources a configuration can name.
S_site == U_ab
S_site2 == U_cab
S_gitA == <<"a", ".", "g", "i", "t">>
S_gitB == <<"b", ".", "g", "i", "t">>
SourcePool == <<S_site, S_gitA, S_gitB, S_site2>>

\* At most this many sources in one configuration.
MaxSources == 2

RECURSIVE SeqsUpTo(_, _)
SeqsUpTo(S, n) ==
    IF n = 0 THEN {<<>>}
    ELSE LET shorter == SeqsUpTo(S, n - 1)
         IN  shorter \cup {Append(q, x) : q \in shorter, x \in S}

\* Lists of distinct sources, in the order of SourcePool.
SourceLists ==
    {q \in SeqsUpTo({SourcePool[i] : i \in 1..Len(SourcePool)}, MaxSources) :
        \A i, j \in 1..Len(q) : i < j =>
            \E m, n \in 1..Len(SourcePool) :
                m < n /\ SourcePool[m] = q[i] /\ SourcePool[n] = q[j]}

\* context["target_urls"]: a comma-separated list, with blanks around the
\* commas, or only blanks and commas.
TargetUrls ==
    {Join(q, <<",", " ">>) : q \in SourceLists} \cup {<<" ", ",", " ">>}

(***************************************************************************)
(* Documents and chunks.                                                   *)
(***************************************************************************)
\* Line 55.
is_git_repo_url(url) == Contains(url, DSO_HOST) \/ EndsWith(url, DOT_GIT)

\* The stripped length of the one markdown file a repository holds.
SourceLen(url) == IF url = S_gitA THEN 1000 ELSE 150

\* Lines 73, 78 and 97: only documents longer than 50 after strip are kept.
Kept(docs) == SelectSeq(docs, LAMBDA d : d.slen > 50)

\* The pages of the sites, as PageOf describes a page; a site that is
\* down (f = "fail") serves nothing.
SitePage(f, url) ==
    CASE f = "ok" /\ url = U_ab ->
            [fetch |-> TRUE, links |-> <<U_ab, U_cab>>, load |-> TRUE, slen |-> 1300]
      [] f = "ok" /\ url = U_cab ->
            [fetch |-> TRUE, links |-> <<U_ab>>, load |-> TRUE, slen |-> 150]
      [] OTHER -> [fetch |-> FALSE, links |-> <<>>, load |-> FALSE, slen |-> 0]

\* scrape_url_recursive(url, visited, depth, max_depth) as a function: the
\* documents it returns and the visited set it leaves. ScrapeLinks is the
\* loop of lines 103-108 over the hrefs left, docs and vis being the docs
\* and the visited set so far.
RECURSIVE Scrape(_, _, _, _, _)
RECURSIVE ScrapeLinks(_, _, _, _, _, _, _)
Scrape(f, url, vis, depth, maxd) ==
    IF Terminal(url, vis, depth, maxd) THEN [docs |-> <<>>, visited |-> vis]
    ELSE ScrapeLinks(f, url,
                     IF SitePage(f, url).fetch THEN SitePage(f, url).links ELSE <<>>,
                     KeptDocs(url, SitePage(f, url)),
                     MarkVisited(vis, url), depth, maxd)
ScrapeLinks(f, url, links, docs, vis, depth, maxd) ==
    IF links = <<>> THEN [docs |-> docs, visited |-> vis]
    ELSE IF Follows(url, Resolve(url, Head(links)))
    THEN LET r == Scrape(f, Resolve(url, Head(links)), vis, NextDepth(depth), maxd)
         IN  ScrapeLinks(f, url, Tail(links), docs \o r.docs, r.visited, depth, maxd)
    ELSE ScrapeLinks(f, url, Tail(links), docs, vis, depth, maxd)

\* The documents a source holds.
SourceDocs(url) ==
    IF is_git_repo_url(url) THEN <<[url |-> url, slen |-> SourceLen(url)]>>
    ELSE Scrape("ok", url, {}, 0, DefaultMaxDepth).docs

\* RecursiveCharacterTextSplitter(chunk_size=500, chunk_overlap=100).
ChunkSize == 500
ChunkOverlap == 100
NumChunks(slen) ==
    IF slen = 0 THEN 0
    ELSE IF slen <= ChunkSize THEN 1
    ELSE 1 + ((slen - ChunkSize) + (ChunkSize - ChunkOverlap) - 1)
                 \div (ChunkSize - ChunkOverlap)

ChunkLen(slen, i) ==
    LET start == (i - 1) * (ChunkSize - ChunkOverlap)
    IN  IF start + ChunkSize <= slen THEN ChunkSize ELSE slen - start

ChunksOfDoc(d) ==
    [i \in 1..NumChunks(d.slen) |->
        [src |-> d.url, part |-> i, tlen |-> ChunkLen(d.slen, i)]]

\* splitter.split_documents(docs)
RECURSIVE split_documents(_)
split_documents(docs) ==
    IF docs = <<>> THEN <<>>
    ELSE ChunksOfDoc(Head(docs)) \o split_documents(Tail(docs))

ChunkSet(chunks) == {chunks[i] : i \in 1..Len(chunks)}

(***************************************************************************)
(* The disk.                                                               *)
(***************************************************************************)
NoIndex == [exists |-> FALSE, entries |-> {}]
\* PERSIST_DIR exists and holds no entry, as after mkdir.
EmptyIndex == [exists |-> TRUE, entries |-> {}]

\* PERSIST_DIR as another writer left it: one entry whose text is blank and
\* one entry with text.
BlankEntry == [src |-> S_site, part |-> 0, tlen |-> 0]
TextEntry == [src |-> S_site, part |-> 1, tlen |-> 120]
MixedIndex == [exists |-> TRUE, entries |-> {BlankEntry, TextEntry}]
NoDir == [exists |-> FALSE, repo |-> <<>>, owner |-> 0, full |-> FALSE]

\* Lines 237-238 left out: the directory stays.
RemoveIndex_Keep(idx) == idx

\* shutil.rmtree(PERSIST_DIR), lines 237-238.
RemoveIndex(idx) == NoIndex

\* Chroma.from_documents(all_chunks, persist_directory=PERSIST_DIR) and
\* persist(): the chunks are added to the collection the directory holds.
from_documents(idx, chunks) ==
    [exists |-> TRUE, entries |-> idx.entries \cup ChunkSet(chunks)]

(***************************************************************************)
(* Results printed by main().                                              *)
(***************************************************************************)
\* keys holds the top-level keys of the printed object, printed the number
\* of objects printed by the call.
NoOut == [kind |-> "none", error |-> FALSE, retry |-> FALSE, response |-> <<>>,
          summaries |-> <<>>, retrieved_chunks |-> 0, index_found |-> FALSE,
          docs |-> <<>>, num_urls |-> 0, num_chunks |-> 0,
          instruction |-> <<>>, keys |-> {}, printed |-> 0]

\* The two shapes main() prints.
ResultKeys == {"response", "context"}
FailureKeys == {"response", "error", "retry", "traceback"}

\* Lines 272-277, followed by sys.exit(1).
FailureOut == [NoOut EXCEPT !.kind = "failure", !.error = TRUE, !.retry = FALSE,
                            !.keys = FailureKeys, !.printed = 1]

\* str(e) of the exceptions the handler of line 271 reports.
IndexErrorText == "list index out of range"
NoUrlsText == "No valid URLs provided in 'target_urls'."
NoContentText == "No content could be scraped from the provided URLs."
UnknownCommandText == "Unknown command"
NotFoundText == "No such file or directory: '/tmp/doc_loader_git'"

\* Line 273: the response names the exception.
Failure(text) == [FailureOut EXCEPT !.response = <<text>>]

\* Lines 223-229.
SkippedOut == [NoOut EXCEPT !.kind = "skipped", !.keys = ResultKeys, !.printed = 1]

\* Lines 260-266.
IndexedOut(n_urls, n_chunks) ==
    [NoOut EXCEPT !.kind = "indexed", !.num_urls = n_urls, !.num_chunks = n_chunks,
                  !.keys = ResultKeys, !.printed = 1]

\* Lines 172-178.
NoIndexOut(question) ==
    [NoOut EXCEPT !.kind = "no_index", !.response = question,
                  !.keys = ResultKeys, !.printed = 1]

NoRequest == [argv1 |-> NoArg, target_urls |-> <<>>, live |-> FALSE]

(***************************************************************************)
(* main(): dispatch                                                        *)
(***************************************************************************)
\* Line 157.
UserInput(argv1) == IF argv1 = NoArg THEN INDEX ELSE Strip(argv1)

\* Lines 160-161.
Command(argv1) ==
    IF StartsWith(Lower(UserInput(argv1)), SCRAPE)
       \/ StartsWith(Lower(UserInput(argv1)), LOAD)
    THEN INDEX ELSE UserInput(argv1)

\* Line 169.
IsAsk(argv1) == StartsWith(Lower(Command(argv1)), ASK)

\* Line 221.
IsIndex(argv1) == ~IsAsk(argv1) /\ Command(argv1) = INDEX

\* Line 170: user_input.split("ask:", 1)[1] raises IndexError when the
\* text does not hold "ask:" in lower case.
AskSplits(argv1) == Occurrences(Command(argv1), ASK) # {}
Question(argv1) == Strip(After(Command(argv1), ASK))

\* Line 233.
ParseUrls(raw) ==
    LET pieces == Split(raw, COMMA)
        stripped == [i \in 1..Len(pieces) |-> Strip(pieces[i])]
    IN  SelectSeq(stripped, LAMBDA u : u # <<>>)

\* Line 222 never skipping.
SkipScrape_Never(f) == FALSE

\* Line 222.
SkipScrape(f) == f

Workers == 1..Len(urls)

\* sys.argv[2] absent: context = {} and target_urls defaults to "".
NoContext == <<>>

Call(argv1, raw) == [argv1 |-> argv1, target_urls |-> raw, live |-> TRUE]

InitProc ==
    /\ mainPc = "idle"
    /\ flag = FALSE
    /\ index \in {NoIndex, EmptyIndex, MixedIndex}
    /\ workspace = NoDir
    /\ request = NoRequest
    /\ urls = <<>>
    /\ fate = <<>>
    /\ wpc = <<>>
    /\ wdocs = <<>>
    /\ wvisited = <<>>
    /\ wres = <<>>
    /\ collected = 0
    /\ all_chunks = <<>>
    /\ out = NoOut
    /\ indexAtStart = index

Init == InitCrawl /\ InitProc

(***************************************************************************)
(* main(): the query branch, lines 169-219                                 *)
(***************************************************************************)
TopK == 5
ExcerptLen == 200

SourceRank(url) == CHOOSE i \in 1..Len(SourcePool) : SourcePool[i] = url
ChunkRank(c) == SourceRank(c.src) * 10 + c.part

RECURSIVE Ranked(_)
Ranked(S) ==
    IF S = {} THEN <<>>
    ELSE LET c == CHOOSE x \in S : \A y \in S : ChunkRank(x) <= ChunkRank(y)
         IN  <<c>> \o Ranked(S \ {c})

\* The retriever without its bound of k entries.
Retrievals_All(entries) == {Ranked(entries)}

\* retriever.get_relevant_documents(question) with k = 5: the k nearest
\* entries of the collection, or all of them when it holds fewer. The search
\* is a function of the question and the collection; Ranked stands for the
\* similarity order the question gives.
Retrievals(entries) ==
    {SubSeq(Ranked(entries), 1,
            IF Cardinality(entries) < TopK THEN Cardinality(entries) ELSE TopK)}

\* Lines 185-189.
Excerpt(c) ==
    [t |-> "excerpt", src |-> c.src, part |-> c.part,
     len |-> IF c.tlen > ExcerptLen THEN ExcerptLen ELSE c.tlen,
     ellipsis |-> c.tlen > ExcerptLen]
Summaries(docs) ==
    LET texts == SelectSeq(docs, LAMBDA c : c.tlen > 0)
    IN  [i \in 1..Len(texts) |-> Excerpt(texts[i])]

\* "\n\n".join(summaries), line 190: one blank line between two excerpts.
BlankLine == [t |-> "blank line"]
RECURSIVE JoinParts(_, _)
JoinParts(parts, sep) ==
    IF parts = <<>> THEN <<>>
    ELSE IF Len(parts) = 1 THEN parts
    ELSE <<Head(parts), sep>> \o JoinParts(Tail(parts), sep)

\* Lines 202-208: the fixed text around the excerpts and the question.
Instruction(question, summaries) ==
    <<[t |-> "here is some information"]>>
        \o JoinParts(summaries, BlankLine)
        \o <<[t |-> "answer the following question"],
             [t |-> "question", text |-> question],
             [t |-> "write a complete answer"]>>

\* Line 215 counting the excerpts instead of the retrieved entries.
QueryOut_CountsExcerpts(question, docs) ==
    IF Summaries(docs) = <<>>
    THEN [NoOut EXCEPT !.kind = "empty", !.response = question,
                       !.index_found = TRUE,
                       !.keys = ResultKeys, !.printed = 1]
    ELSE [NoOut EXCEPT !.kind = "answer",
                       !.instruction = Instruction(question, Summaries(docs)),
                       !.summaries = Summaries(docs),
                       !.retrieved_chunks = Len(Summaries(docs)),
                       !.index_found = TRUE,
                       !.docs = docs,
                       !.keys = ResultKeys, !.printed = 1]

\* Lines 192-218.
QueryOut(question, docs) ==
    IF Summaries(docs) = <<>>
    THEN [NoOut EXCEPT !.kind = "empty", !.response = question,
                       !.index_found = TRUE,
                       !.keys = ResultKeys, !.printed = 1]
    ELSE [NoOut EXCEPT !.kind = "answer",
                       !.instruction = Instruction(question, Summaries(docs)),
                       !.summaries = Summaries(docs),
                       !.retrieved_chunks = Len(docs), !.index_found = TRUE,
                       !.docs = docs,
                       !.keys = ResultKeys, !.printed = 1]

\* What a call of main() leaves alone until the pool is started.
NoPool == UNCHANGED <<urls, fate, wpc, wdocs, wvisited, wres, collected, all_chunks>>

\* main() returns or exits: its locals and the pool are gone.
Leave ==
    /\ urls' = <<>>
    /\ fate' = <<>>
    /\ wpc' = <<>>
    /\ wdocs' = <<>>
    /\ wvisited' = <<>>
    /\ wres' = <<>>
    /\ collected' = 0
    /\ all_chunks' = <<>>
    /\ workspace' = [workspace EXCEPT !.owner = 0]

\* Line 170 raises: the handler of line 271 prints the failure and exits.
AskMalformed ==
    /\ mainPc = "idle"
    /\ \E argv1 \in Argv1 :
        /\ IsAsk(argv1) /\ ~AskSplits(argv1)
        /\ request' = Call(argv1, NoContext)
    /\ out' = Failure(IndexErrorText)
    /\ mainPc' = "exited"
    /\ indexAtStart' = index
    /\ NoPool
    /\ UNCHANGED <<flag, index, workspace, crawlVars>>

\* Line 171 left out: opening the collection at line 181 makes the directory.
AskNoIndex_Creates ==
    /\ mainPc = "idle"
    /\ ~index.exists
    /\ \E argv1 \in Argv1 :
        /\ IsAsk(argv1) /\ AskSplits(argv1)
        /\ request' = Call(argv1, NoContext)
        /\ out' = QueryOut(Question(argv1), <<>>)
    /\ index' = EmptyIndex
    /\ indexAtStart' = index
    /\ NoPool
    /\ UNCHANGED <<mainPc, flag, workspace, crawlVars>>

\* Lines 171-179.
AskNoIndex ==
    /\ mainPc = "idle"
    /\ ~index.exists
    /\ \E argv1 \in Argv1 :
        /\ IsAsk(argv1) /\ AskSplits(argv1)
        /\ request' = Call(argv1, NoContext)
        /\ out' = NoIndexOut(Question(argv1))
    /\ indexAtStart' = index
    /\ NoPool
    /\ UNCHANGED <<mainPc, flag, index, workspace, crawlVars>>

\* Lines 181-219.
AskAnswer ==
    /\ mainPc = "idle"
    /\ index.exists
    /\ \E argv1 \in Argv1 :
        /\ IsAsk(argv1) /\ AskSplits(argv1)
        /\ request' = Call(argv1, NoContext)
        /\ \E docs \in Retrievals(index.entries) :
              out' = QueryOut(Question(argv1), docs)
    /\ indexAtStart' = index
    /\ NoPool
    /\ UNCHANGED <<mainPc, flag, index, workspace, crawlVars>>

(***************************************************************************)
(* main(): the ingestion branch, lines 221-267                             *)
(***************************************************************************)
PoolSize == 5

\* Lines 222-230.
IndexSkipped ==
    /\ mainPc = "idle"
    /\ SkipScrape(flag)
    /\ \E argv1 \in Argv1, raw \in TargetUrls :
        /\ IsIndex(argv1)
        /\ request' = Call(argv1, raw)
    /\ out' = SkippedOut
    /\ indexAtStart' = index
    /\ NoPool
    /\ UNCHANGED <<mainPc, flag, index, workspace, crawlVars>>

\* Lines 234-235 placed after lines 237-238: the index is removed first.
IndexNoUrls_AfterRemoval ==
    /\ mainPc = "idle"
    /\ ~SkipScrape(flag)
    /\ \E argv1 \in Argv1, raw \in TargetUrls :
        /\ IsIndex(argv1)
        /\ ParseUrls(raw) = <<>>
        /\ request' = Call(argv1, raw)
    /\ out' = Failure(NoUrlsText)
    /\ mainPc' = "exited"
    /\ indexAtStart' = index
    /\ index' = RemoveIndex(index)
    /\ NoPool
    /\ UNCHANGED <<flag, workspace, crawlVars>>

\* Lines 232-235: ValueError, printed by the handler of line 271.
IndexNoUrls ==
    /\ mainPc = "idle"
    /\ ~SkipScrape(flag)
    /\ \E argv1 \in Argv1, raw \in TargetUrls :
        /\ IsIndex(argv1)
        /\ ParseUrls(raw) = <<>>
        /\ request' = Call(argv1, raw)
    /\ out' = Failure(NoUrlsText)
    /\ mainPc' = "exited"
    /\ indexAtStart' = index
    /\ NoPool
    /\ UNCHANGED <<flag, index, workspace, crawlVars>>

Fates(url) == IF is_git_repo_url(url) THEN {"ok", "fail", "partial"}
              ELSE {"ok", "fail"}

\* Lines 232-249: the index directory is removed and every source is
\* submitted to the pool.
IndexBegin ==
    /\ mainPc = "idle"
    /\ ~SkipScrape(flag)
    /\ \E argv1 \in Argv1, raw \in TargetUrls :
        /\ IsIndex(argv1)
        /\ ParseUrls(raw) # <<>>
        /\ request' = Call(argv1, raw)
        /\ urls' = ParseUrls(raw)
        /\ \E f \in [1..Len(ParseUrls(raw)) -> {"ok", "fail", "partial"}] :
            /\ \A i \in 1..Len(ParseUrls(raw)) : f[i] \in Fates(ParseUrls(raw)[i])
            /\ fate' = f
        /\ wpc' = [i \in 1..Len(ParseUrls(raw)) |-> "pending"]
        /\ wdocs' = [i \in 1..Len(ParseUrls(raw)) |-> <<>>]
        /\ wvisited' = [i \in 1..Len(ParseUrls(raw)) |-> {}]
        /\ wres' = [i \in 1..Len(ParseUrls(raw)) |-> <<>>]
    /\ indexAtStart' = index
    /\ index' = RemoveIndex(index)
    /\ collected' = 0
    /\ all_chunks' = <<>>
    /\ out' = NoOut
    /\ mainPc' = "scraping"
    /\ UNCHANGED <<flag, workspace, crawlVars>>

\* Line 269: ValueError, printed by the handler of line 271.
UnknownCommand ==
    /\ mainPc = "idle"
    /\ \E argv1 \in Argv1 :
        /\ ~IsAsk(argv1) /\ ~IsIndex(argv1)
        /\ request' = Call(argv1, NoContext)
    /\ out' = Failure(UnknownCommandText)
    /\ mainPc' = "exited"
    /\ indexAtStart' = index
    /\ NoPool
    /\ UNCHANGED <<flag, index, workspace, crawlVars>>

Running(w) ==
    wpc[w] \in {"check", "rmtree", "clone", "walk", "cleanup", "crawl", "crawling"}

\* A pool thread takes the next task of the queue and calls smart_scrape.
WorkerStart(w) ==
    /\ mainPc \in {"scraping", "shutdown"}
    /\ wpc[w] = "pending"
    /\ \A v \in 1..(w - 1) : wpc[v] # "pending"
    /\ Cardinality({v \in Workers : Running(v)}) < PoolSize
    /\ wpc' = [wpc EXCEPT ![w] = IF is_git_repo_url(urls[w]) THEN "check"
                                 ELSE "crawl"]
    /\ UNCHANGED <<mainPc, flag, index, workspace, request, urls, fate, wdocs,
                   wvisited,
                   wres, collected, all_chunks, out, indexAtStart, crawlVars>>

\* Line 59.
GitExists(w) ==
    /\ wpc[w] = "check"
    /\ wpc' = [wpc EXCEPT ![w] = IF workspace.exists THEN "rmtree" ELSE "clone"]
    /\ UNCHANGED <<mainPc, flag, index, workspace, request, urls, fate, wdocs,
                   wvisited,
                   wres, collected, all_chunks, out, indexAtStart, crawlVars>>

\* Line 60: rmtree raises when the directory is gone by now.
GitRmtree(w) ==
    /\ wpc[w] = "rmtree"
    /\ wpc' = [wpc EXCEPT ![w] = IF workspace.exists THEN "clone" ELSE "raised"]
    /\ workspace' = NoDir
    /\ UNCHANGED <<mainPc, flag, index, request, urls, fate, wdocs,
                   wvisited,
                   wres, collected, all_chunks, out, indexAtStart, crawlVars>>

\* What git clone leaves at temp_dir: it refuses a directory that exists,
\* leaves nothing when it cannot reach the repository, and leaves the
\* directory behind when it fails after creating it.
Cloned(ws, w, url, f) ==
    IF ws.exists THEN ws
    ELSE IF f = "ok" THEN [exists |-> TRUE, repo |-> url, owner |-> w, full |-> TRUE]
    ELSE IF f = "partial"
         THEN [exists |-> TRUE, repo |-> url, owner |-> w, full |-> FALSE]
    ELSE NoDir

\* Lines 61-64.
GitClone(w) ==
    /\ wpc[w] = "clone"
    /\ workspace' = Cloned(workspace, w, urls[w], fate[w])
    /\ wpc' = [wpc EXCEPT ![w] = IF ~workspace.exists /\ fate[w] = "ok"
                                 THEN "walk" ELSE "done"]
    /\ UNCHANGED <<mainPc, flag, index, request, urls, fate, wdocs,
                   wvisited,
                   wres, collected, all_chunks, out, indexAtStart, crawlVars>>

\* Lines 65-82: the markdown files found under temp_dir now.
Walked(ws) == IF ws.exists /\ ws.full THEN Kept(SourceDocs(ws.repo)) ELSE <<>>

GitWalk(w) ==
    /\ wpc[w] = "walk"
    /\ wdocs' = [wdocs EXCEPT ![w] = Walked(workspace)]
    /\ wpc' = [wpc EXCEPT ![w] = "cleanup"]
    /\ UNCHANGED <<mainPc, flag, index, workspace, request, urls, fate, wvisited,
                   wres, collected, all_chunks, out, indexAtStart, crawlVars>>

\* Lines 83-84 and 244: rmtree raises when the directory is gone.
GitCleanup(w) ==
    /\ wpc[w] = "cleanup"
    /\ workspace' = NoDir
    /\ IF workspace.exists
       THEN /\ wres' = [wres EXCEPT ![w] = split_documents(wdocs[w])]
            /\ wpc' = [wpc EXCEPT ![w] = "done"]
       ELSE /\ wres' = wres
            /\ wpc' = [wpc EXCEPT ![w] = "raised"]
    /\ UNCHANGED <<mainPc, flag, index, request, urls, fate, wdocs,
                   wvisited,
                   collected, all_chunks, out, indexAtStart, crawlVars>>

\* Lines 86-88 with one set shared by all calls.
VisitedAtCall_Shared(w, vis) == UNION {vis[v] : v \in DOMAIN vis}

\* Lines 86-88: visited is None in the call of line 245, so the call makes
\* a new empty set.
VisitedAtCall(w, vis) == {}

SiteEnter(w) ==
    /\ wpc[w] = "crawl"
    /\ wvisited' = [wvisited EXCEPT ![w] = VisitedAtCall(w, wvisited)]
    /\ wpc' = [wpc EXCEPT ![w] = "crawling"]
    /\ UNCHANGED <<mainPc, flag, index, workspace, request, urls, fate, wdocs,
                   wres, collected, all_chunks, out, indexAtStart, crawlVars>>

\* Lines 89-111 and 245: the traversal from the source's URL with that set.
SiteDocs(url, f, vis) == Scrape(f, url, vis, 0, DefaultMaxDepth)

SiteCrawl(w) ==
    /\ wpc[w] = "crawling"
    /\ wres' = [wres EXCEPT ![w] =
                    split_documents(SiteDocs(urls[w], fate[w], wvisited[w]).docs)]
    /\ wvisited' = [wvisited EXCEPT ![w] =
                        SiteDocs(urls[w], fate[w], wvisited[w]).visited]
    /\ wpc' = [wpc EXCEPT ![w] = "done"]
    /\ UNCHANGED <<mainPc, flag, index, workspace, request, urls, fate, wdocs,
                   collected, all_chunks, out, indexAtStart, crawlVars>>

\* Lines 250-251: the next result, in submission order.
Collect ==
    /\ mainPc = "scraping"
    /\ collected < Len(urls)
    /\ wpc[collected + 1] = "done"
    /\ all_chunks' = all_chunks \o wres[collected + 1]
    /\ collected' = collected + 1
    /\ UNCHANGED <<mainPc, flag, index, workspace, request, urls, fate, wpc,
                   wdocs, wvisited, wres, out, indexAtStart, crawlVars>>

\* Line 250: the next result re-raises what its task raised; the tasks not
\* yet started are cancelled and the pool is shut down.
CollectRaises ==
    /\ mainPc = "scraping"
    /\ collected < Len(urls)
    /\ wpc[collected + 1] = "raised"
    /\ wpc' = [w \in Workers |-> IF wpc[w] = "pending" THEN "cancelled" ELSE wpc[w]]
    /\ mainPc' = "shutdown"
    /\ UNCHANGED <<flag, index, workspace, request, urls, fate, wdocs, wvisited, wres,
                   collected, all_chunks, out, indexAtStart, crawlVars>>

\* The exception of a task ends the process with nothing printed.
ShutdownExit_Silent ==
    /\ mainPc = "shutdown"
    /\ \A w \in Workers : ~Running(w)
    /\ out' = NoOut
    /\ mainPc' = "exited"
    /\ Leave
    /\ UNCHANGED <<flag, index, request, indexAtStart, crawlVars>>

\* Line 248 leaves the with block once the running tasks end; line 271.
ShutdownExit ==
    /\ mainPc = "shutdown"
    /\ \A w \in Workers : ~Running(w)
    /\ out' = Failure(NotFoundText)
    /\ mainPc' = "exited"
    /\ Leave
    /\ UNCHANGED <<flag, index, request, indexAtStart, crawlVars>>

\* Lines 253-254 left out: the empty aggregate is indexed.
IndexEmpty_Unchecked ==
    /\ mainPc = "scraping"
    /\ collected = Len(urls)
    /\ all_chunks = <<>>
    /\ index' = from_documents(index, all_chunks)
    /\ flag' = TRUE
    /\ out' = IndexedOut(Len(urls), 0)
    /\ mainPc' = "idle"
    /\ Leave
    /\ UNCHANGED <<request, indexAtStart, crawlVars>>

\* Lines 253-254: RuntimeError, printed by the handler of line 271.
IndexEmpty ==
    /\ mainPc = "scraping"
    /\ collected = Len(urls)
    /\ all_chunks = <<>>
    /\ out' = Failure(NoContentText)
    /\ mainPc' = "exited"
    /\ Leave
    /\ UNCHANGED <<flag, index, request, indexAtStart, crawlVars>>

\* Lines 256-267.
IndexBuild ==
    /\ mainPc = "scraping"
    /\ collected = Len(urls)
    /\ all_chunks # <<>>
    /\ index' = from_documents(index, all_chunks)
    /\ flag' = TRUE
    /\ out' = IndexedOut(Len(urls), Len(all_chunks))
    /\ mainPc' = "idle"
    /\ Leave
    /\ UNCHANGED <<request, indexAtStart, crawlVars>>

\* The process ends and a new one loads the module (line 26); the disk stays.
Restart ==
    /\ mainPc \in {"idle", "exited"}
    /\ mainPc' = "idle"
    /\ flag' = FALSE
    /\ request' = NoRequest
    /\ out' = NoOut
    /\ NoPool
    /\ indexAtStart' = index
    /\ UNCHANGED <<index, workspace, crawlVars>>

Next ==
    \/ AskMalformed
    \/ AskNoIndex
    \/ AskAnswer
    \/ IndexSkipped
    \/ IndexNoUrls
    \/ IndexBegin
    \/ UnknownCommand
    \/ \E w \in Workers : WorkerStart(w)
    \/ \E w \in Workers : GitExists(w)
    \/ \E w \in Workers : GitRmtree(w)
    \/ \E w \in Workers : GitClone(w)
    \/ \E w \in Workers : GitWalk(w)
    \/ \E w \in Workers : GitCleanup(w)
    \/ \E w \in Workers : SiteEnter(w)
    \/ \E w \in Workers : SiteCrawl(w)
    \/ Collect
    \/ CollectRaises
    \/ ShutdownExit
    \/ IndexEmpty
    \/ IndexBuild
    \/ Restart

Spec == Init /\ [][Next]_vars

\* A traversal does not touch the disk: PERSIST_DIR is taken absent.
InitTraversal == Init /\ index = NoIndex

\* Every fetch returns, and the interpreter keeps running the call.
SpecCrawl == InitTraversal /\ [][NextCrawl]_vars /\ WF_vars(NextCrawl)

(***************************************************************************)
(* Properties of the crawl.                                                *)
(***************************************************************************)
ProcessedUrls == {processed[i].url : i \in 1..Len(processed)}

\* C1: in a traversal no URL passes line 90 twice and none passes it at a
\* depth above max_depth; the calls that return at line 90 add nothing to
\* visited, so visited holds exactly the URLs that passed, once each.
C1_OncePerUrlWithinDepth ==
    /\ \A i, j \in 1..Len(processed) :
          i # j => processed[i].url # processed[j].url
    /\ \A i \in 1..Len(processed) : processed[i].depth <= max_depth
    /\ visited = ProcessedUrls
    /\ Cardinality(visited) = Len(processed)
    /\ \A i \in 1..Len(rejected) :
          rejected[i].url \in visited \/ rejected[i].depth > max_depth

\* A finished traversal that turned away both a visited URL and a too-deep one.
C1_Witness ==
    /\ crawlPc = "done"
    /\ \E i \in 1..Len(rejected) :
          rejected[i].url \in visited /\ rejected[i].depth <= max_depth
    /\ \E i \in 1..Len(rejected) :
          rejected[i].url \notin visited /\ rejected[i].depth > max_depth

\* C2: every traversal, on webs with self-links, mutual links and unbounded
\* chains of pages, returns.
C2_CrawlTerminates == <>(crawlPc = "done")

\* A traversal with max_depth = 3 that returned after meeting a link back to
\* a visited page and a chain longer than the depth bound.
C2_Witness ==
    /\ crawlPc = "done" /\ max_depth = DefaultMaxDepth
    /\ \E i \in 1..Len(rejected) : rejected[i].url \in visited
    /\ \E i \in 1..Len(rejected) : rejected[i].depth > DefaultMaxDepth
    /\ \E i \in 1..Len(processed) : processed[i].depth = DefaultMaxDepth

\* C3: every URL the traversal recursed into is on the host of the root.
C3_SameSite ==
    \A u \in visited : Absolute(u) /\ HostOf(u) = HostOf(croot)

(***************************************************************************)
(* Properties of the ingestion and of the query.                           *)
(***************************************************************************)
GitPcs == {"check", "rmtree", "clone", "walk", "cleanup"}

\* The chunks a source yields when nothing disturbs its extraction.
OwnChunks(url) == split_documents(Kept(SourceDocs(url)))

\* The sources of the running ingestion that do not fail by themselves.
Sound == {w \in Workers : fate[w] = "ok"}

\* C4: when some source of an ingestion does not fail, no task raises into
\* the request, the task of every sound source returns that source's chunks,
\* and the aggregate holds them once all results are collected.
C4_FailureIsolation ==
    (mainPc \in {"scraping", "shutdown"} /\ Sound # {}) =>
        /\ mainPc # "shutdown"
        /\ \A w \in Workers : wpc[w] # "raised"
        /\ \A w \in Sound :
              wpc[w] = "done" => wres[w] = OwnChunks(urls[w])
        /\ collected = Len(urls) =>
              /\ all_chunks # <<>>
              /\ \A w \in Sound :
                    ChunkSet(OwnChunks(urls[w])) \subseteq ChunkSet(all_chunks)

\* C5: whenever clone_and_load_md returns or raises, temp_dir does not exist.
C5_WorkspaceRemoved ==
    [][\A w \in (DOMAIN wpc) \cap (DOMAIN wpc') :
          (wpc[w] \in GitPcs /\ wpc'[w] \in {"done", "raised"})
              => ~workspace'.exists]_vars

\* C6: from its clone to its cleanup a task finds at temp_dir the directory
\* its own clone made, and a sound repository source returns its own chunks.
C6_ExclusiveWorkspace ==
    \A w \in Workers :
        /\ wpc[w] \in {"walk", "cleanup"} =>
              (workspace.exists /\ workspace.owner = w)
        /\ (is_git_repo_url(urls[w]) /\ fate[w] = "ok" /\ wpc[w] = "done") =>
              wres[w] = OwnChunks(urls[w])

\* C7: an ingestion that succeeds leaves in the index exactly the chunks it
\* aggregated, whatever the index held before; the index changes in no other
\* way than being removed when an ingestion begins; and a query returns
\* entries of the index only.
C7_RebuildReplaces ==
    [][/\ (mainPc = "scraping" /\ mainPc' = "idle") =>
              (index'.exists /\ index'.entries = ChunkSet(all_chunks))
       /\ index' # index =>
              \/ mainPc = "scraping" /\ mainPc' = "idle"
              \/ mainPc = "idle" /\ mainPc' = "scraping" /\ index' = NoIndex
       /\ out'.kind = "answer" =>
              ChunkSet(out'.docs) \subseteq index'.entries]_vars

\* A second successful ingestion whose index lacks entries of the first.
C7_Witness ==
    /\ out.kind = "indexed"
    /\ indexAtStart.exists /\ index.exists
    /\ indexAtStart.entries \ index.entries # {}

\* C8: an ingestion request that ends in failure leaves the index as it was
\* when the request began.
C8_FailedIngestKeepsIndex ==
    (request.live /\ IsIndex(request.argv1) /\ out.kind = "failure") =>
        index = indexAtStart

\* The text after the marker of a query request, whatever its letter case.
Asked(argv1) == Strip(SubSeq(UserInput(argv1), Len(ASK) + 1, Len(UserInput(argv1))))

\* C9: a query request made while no index exists is answered with the
\* question itself, zero retrieved chunks and index_found = false, and
\* creates no index.
C9_QueryWithoutIndex ==
    (request.live /\ IsAsk(request.argv1) /\ ~indexAtStart.exists) =>
        /\ out = NoIndexOut(Asked(request.argv1))
        /\ out.retrieved_chunks = 0 /\ ~out.index_found
        /\ ~index.exists

\* C10: with the flag set, an ingestion request prints the skipped result,
\* leaves the index and the workspace alone and starts no task; the flag is
\* set only by an ingestion that succeeded and cleared only by a new process.
C10_SessionGuard ==
    [][/\ (flag /\ mainPc = "idle" /\ request'.live /\ IsIndex(request'.argv1)) =>
              /\ out' = SkippedOut
              /\ index' = index /\ workspace' = workspace
              /\ wpc' = wpc /\ mainPc' = "idle" /\ flag'
       /\ (~flag /\ flag') => (out'.kind = "indexed" /\ index'.exists)
       /\ (flag /\ ~flag') => ~request'.live]_vars

\* An ingestion request skipped after a successful one in the same process.
C10_Witness ==
    /\ flag /\ out = SkippedOut /\ index.exists
    /\ request.live /\ IsIndex(request.argv1) /\ ParseUrls(request.target_urls) # <<>>

\* What the task of source w returns when no other task disturbs it.
Undisturbed(w) == IF fate[w] = "ok" THEN OwnChunks(urls[w]) ELSE <<>>

RECURSIVE ConcatUpTo(_, _)
ConcatUpTo(f, n) == IF n = 0 THEN <<>> ELSE ConcatUpTo(f, n - 1) \o f[n]

\* C11: whatever the order in which the tasks run and complete, the chunks
\* aggregated so far are the chunk lists of the sources collected so far,
\* each as its source alone determines it, in submission order.
C11_AggregateInSubmissionOrder ==
    mainPc = "scraping" =>
        all_chunks = ConcatUpTo([w \in Workers |-> Undisturbed(w)], collected)

\* The aggregate is the concatenation, in submission order, of what the
\* tasks returned.
ResultsInOrder ==
    mainPc = "scraping" => all_chunks = ConcatUpTo(wres, collected)

\* C12: when every source has been collected and the aggregate is empty,
\* the request ends with the failure payload (error = true, retry = false),
\* no index is written and the session flag stays unset.
C12_EmptyAggregateFails ==
    [][(mainPc = "scraping" /\ collected = Len(urls) /\ all_chunks = <<>>) =>
          /\ out' = Failure(NoContentText) /\ mainPc' = "exited"
          /\ out'.error /\ ~out'.retry /\ "retry" \in out'.keys
          /\ index' = index /\ ~index'.exists
          /\ ~flag /\ ~flag']_vars

\* An ingestion of one source that yielded nothing has failed.
C12_Witness ==
    /\ mainPc = "exited" /\ out = Failure(NoContentText)
    /\ request.live /\ IsIndex(request.argv1)
    /\ Len(ParseUrls(request.target_urls)) = 1
    /\ ~index.exists /\ ~flag

\* What the claim C13 promises for a request: the failure payload and
\* nothing touched.
FailsUntouched ==
    /\ out' = Failure(NoUrlsText)
    /\ out'.error /\ ~out'.retry /\ "retry" \in out'.keys
    /\ index' = index /\ flag' = flag
    /\ workspace' = workspace /\ wpc' = <<>>

\* C13 as stated: every ingestion request whose source list is empty fails
\* with error = true and retry = false, with the index, the flag and the
\* sources untouched.
C13_EmptySourceListFails ==
    [][(mainPc = "idle" /\ request'.live /\ IsIndex(request'.argv1)
            /\ ParseUrls(request'.target_urls) = <<>>)
          => FailsUntouched]_vars

\* C13 amended: the same, for a request made while the session flag is
\* unset; with the flag set the request is skipped (lines 222-230).
C13_EmptySourceListFails_Unflagged ==
    [][(mainPc = "idle" /\ ~flag /\ request'.live /\ IsIndex(request'.argv1)
            /\ ParseUrls(request'.target_urls) = <<>>)
          => (FailsUntouched /\ mainPc' = "exited")]_vars

\* A request without sources has failed and the index of an earlier
\* ingestion is still there.
C13_Witness ==
    /\ mainPc = "exited" /\ out = Failure(NoUrlsText)
    /\ request.live /\ IsIndex(request.argv1)
    /\ ParseUrls(request.target_urls) = <<>>
    /\ index.exists /\ index = indexAtStart

\* C14: every result reports between 0 and k = 5 retrieved chunks; an answer
\* reports the number of entries retrieved, which are at most k entries of
\* the index, nearest first.
C14_AtMostK ==
    /\ out.retrieved_chunks \in 0..TopK
    /\ out.kind = "answer" =>
          /\ out.retrieved_chunks = Len(out.docs)
          /\ Len(out.docs) <= TopK
          /\ ChunkSet(out.docs) \subseteq index.entries
          /\ \A i, j \in 1..Len(out.docs) :
                i < j => ChunkRank(out.docs[i]) < ChunkRank(out.docs[j])

\* An answer from an index that holds more than k entries.
C14_Witness ==
    /\ out.kind = "answer"
    /\ Cardinality(index.entries) > TopK
    /\ out.retrieved_chunks = TopK

\* Lines 193-199 for a question.
EmptyOut(question) == QueryOut(question, <<>>)

\* Whatever the retriever returns from these entries holds no text.
NothingToShow(entries) == \A docs \in Retrievals(entries) : Summaries(docs) = <<>>

\* C15: a query made while the index exists and retrieval yields no
\* non-empty text prints the question itself with retrieved_chunks = 0 and
\* index_found = true, and no instruction.
C15_EmptyRetrieval ==
    (request.live /\ IsAsk(request.argv1)
        /\ indexAtStart.exists /\ NothingToShow(indexAtStart.entries)) =>
        /\ out = EmptyOut(Asked(request.argv1))
        /\ out.kind = "empty" /\ out.response = Asked(request.argv1)
        /\ out.retrieved_chunks = 0 /\ out.index_found
        /\ out.summaries = <<>> /\ out.instruction = <<>>

\* The retrieved entries whose text is not empty, in retrieval order.
Shown == SelectSeq(out.docs, LAMBDA c : c.tlen > 0)

\* C16: in an answer, the instruction holds, after its opening text, one
\* excerpt per retrieved entry with text, in retrieval order, each the first
\* 200 characters of the text with the ellipsis exactly when the text is
\* longer, one blank line between two excerpts, and then the question.
C16_PromptAssembly ==
    out.kind = "answer" =>
        /\ Len(out.instruction) = 2 * Len(Shown) + 3
        /\ \A i \in 1..Len(Shown) :
              /\ out.instruction[2 * i] =
                    [t |-> "excerpt", src |-> Shown[i].src, part |-> Shown[i].part,
                     len |-> IF Shown[i].tlen < 200 THEN Shown[i].tlen ELSE 200,
                     ellipsis |-> Shown[i].tlen > 200]
              /\ i < Len(Shown) => out.instruction[2 * i + 1] = BlankLine
        /\ out.instruction[2 * Len(Shown) + 2] =
              [t |-> "question", text |-> Asked(request.argv1)]

\* The site sources of the running ingestion.
SiteWorkers == {w \in Workers : ~is_git_repo_url(urls[w])}

\* C17: the traversal of each site source starts with an empty visited set,
\* and, whatever the other tasks have visited by then, returns the chunks and
\* leaves the visited set that the source alone determines.
C17_OwnVisitedSet ==
    \A w \in SiteWorkers :
        /\ wpc[w] = "crawling" => wvisited[w] = {}
        /\ wpc[w] = "done" =>
              /\ wres[w] = Undisturbed(w)
              /\ wvisited[w] = Scrape(fate[w], urls[w], {}, 0, DefaultMaxDepth).visited

\* The traversal of a second site has returned its page although the
\* traversal of the first site had visited that page before it started.
C17_Witness ==
    \E v, w \in SiteWorkers :
        /\ v # w /\ wpc[v] = "done" /\ wpc[w] = "done"
        /\ urls[w] \in wvisited[v]
        /\ wres[w] # <<>>

\* The document WebBaseLoader yields at url and line 97 keeps, if any.
Extracted(url) ==
    IF Absolute(url) /\ Served(plan, url).load /\ Served(plan, url).slen > 50
    THEN {[url |-> url, slen |-> Served(plan, url).slen]} ELSE {}

\* The hrefs requests.get yields at url; none when the fetch fails.
Hrefs(url) ==
    IF Absolute(url) /\ Served(plan, url).fetch THEN Served(plan, url).links ELSE <<>>

\* C18: a traversal in progress always has a next step, whatever failed; and
\* when it has returned, it returns exactly one document for every URL it
\* processed whose extraction succeeded, whether or not the fetch of that
\* URL or of any other failed, and every link of every fetched page that
\* passes the test of line 107 was recursed into.
C18_FailuresContained ==
    /\ crawlPc = "running" => ENABLED NextCrawl
    /\ crawlPc = "done" =>
          /\ {crawlDocs[i] : i \in 1..Len(crawlDocs)} =
                UNION {Extracted(processed[i].url) : i \in 1..Len(processed)}
          /\ Len(crawlDocs) =
                Cardinality(UNION {Extracted(processed[i].url) : i \in 1..Len(processed)})
          /\ \A i \in 1..Len(processed) :
                \A k \in 1..Len(Hrefs(processed[i].url)) :
                    \A link \in {Resolve(processed[i].url, Hrefs(processed[i].url)[k])} :
                        Follows(processed[i].url, link) =>
                            \/ \E j \in 1..Len(processed) : processed[j].url = link
                            \/ \E j \in 1..Len(rejected) : rejected[j].url = link

\* A traversal returned the document of a page whose fetch failed, the
\* document of a page processed after it at the same depth, and the
\* document of a page below one whose extraction failed.
C18_Witness ==
    /\ crawlPc = "done"
    /\ \E i, j \in 1..Len(processed) :
          /\ i < j /\ processed[i].depth = processed[j].depth
          /\ ~Served(plan, processed[i].url).fetch
          /\ Extracted(processed[i].url) # {}
          /\ Extracted(processed[i].url) \cup Extracted(processed[j].url)
                \subseteq {crawlDocs[n] : n \in 1..Len(crawlDocs)}
          /\ Extracted(processed[j].url) # {}
          /\ \E k \in 1..(i - 1) :
                /\ processed[k].depth < processed[i].depth
                /\ Absolute(processed[k].url)
                /\ ~Served(plan, processed[k].url).load

\* C19: a call of main() that has ended has printed exactly one object, a
\* result or the failure payload; the failure payload carries error = true
\* and retry = false, and is printed exactly when the process exits with
\* status 1; nothing is printed while the call is still running.
C19_OneStructuredResult ==
    /\ (request.live /\ mainPc \in {"idle", "exited"}) =>
          /\ out.printed = 1
          /\ out.keys \in {ResultKeys, FailureKeys}
          /\ (out.keys = FailureKeys) <=> (mainPc = "exited")
    /\ out.keys = FailureKeys =>
          /\ out.kind = "failure"
          /\ out.error /\ ~out.retry /\ "retry" \in out.keys
    /\ mainPc \in {"scraping", "shutdown"} => out.printed = 0
    /\ ~request.live => out.printed = 0

\* The failure of a worker task has been reported by the handler of main().
C19_Witness ==
    /\ mainPc = "exited"
    /\ out = Failure(NotFoundText)
    /\ IsIndex(request.argv1)

\* urljoin(url, href) for a relative href: a root-relative one replaces the
\* path, a document-relative one replaces what follows the last "/".
MaxOf(S) == CHOOSE x \in S : \A y \in S : x >= y
Joined(url, href) ==
    IF StartsWith(href, SLASH) THEN UrlJoin(url, href)
    ELSE SubSeq(url, 1, MaxOf(Occurrences(url, SLASH))) \o href

\* An href with no scheme, root-relative or document-relative.
Relative(href) == ~HasSep(href)

\* C20: when a traversal has returned, every relative href of every page it
\* fetched has been resolved against the page URL and recursed into (the
\* call either passed line 90 or returned there).
C20_RelativeLinksResolved ==
    crawlPc = "done" =>
        \A i \in 1..Len(processed) :
            \A k \in 1..Len(Hrefs(processed[i].url)) :
                \A href \in {Hrefs(processed[i].url)[k]} :
                    Relative(href) =>
                        \A target \in {Joined(processed[i].url, href)} :
                            \/ \E j \in 1..Len(processed) : processed[j].url = target
                            \/ \E j \in 1..Len(rejected) : rejected[j].url = target

\* The URLs line 108 recurses into from the page at url.
LinkTargets(url) ==
    {Resolve(url, Hrefs(url)[k]) : k \in 1..Len(Hrefs(url))}

Successors(url) ==
    IF Absolute(url) /\ Level(url) \in DOMAIN plan
    THEN {link \in LinkTargets(url) : Follows(url, link) /\ Len(link) <= MaxUrlLen}
    ELSE {}

\* The URLs at most n link-following hops from the root.
RECURSIVE Within(_)
Within(n) ==
    IF n = 0 THEN {croot}
    ELSE Within(n - 1) \cup UNION {Successors(u) : u \in Within(n - 1)}

\* No fetch and no extraction of the traversal failed.
NoFailure ==
    \A i \in 1..Len(processed) :
        /\ Absolute(processed[i].url)
        /\ Served(plan, processed[i].url).fetch
        /\ Served(plan, processed[i].url).load

\* C21: when a traversal without failures has returned, every URL at most
\* max_depth hops from the root was processed, and at a depth no greater
\* than its shortest distance.
C21_CompleteWithinDepth ==
    (crawlPc = "done" /\ NoFailure) =>
        \A n \in 0..max_depth :
            \A u \in Within(n) :
                \E i \in 1..Len(processed) :
                    processed[i].url = u /\ processed[i].depth <= n

\* The excerpts the instruction of the result holds.
Excerpts == SelectSeq(out.instruction, LAMBDA part : part.t = "excerpt")

\* C22: an answer reports the number of entries the retriever returned,
\* between 1 and 5; its instruction holds one excerpt for each of them
\* whose text is not blank, at least one and at most retrieved_chunks.
C22_CountsRetrievedEntries ==
    out.kind = "answer" =>
        /\ out.docs \in Retrievals(index.entries)
        /\ out.retrieved_chunks = Len(out.docs)
        /\ out.retrieved_chunks >= 1 /\ out.retrieved_chunks <= 5
        /\ Len(Excerpts) =
              Cardinality({i \in 1..Len(out.docs) : out.docs[i].tlen > 0})
        /\ Len(Excerpts) >= 1 /\ Len(Excerpts) <= out.retrieved_chunks

\* An answer that counts a retrieved entry with blank text and shows no
\* excerpt of it.
C22_Witness ==
    /\ out.kind = "answer"
    /\ \E i \in 1..Len(out.docs) : out.docs[i].tlen = 0
    /\ Len(Excerpts) < out.retrieved_chunks

\* C23: a call of main() with a query leaves the index, the clone workspace
\* and the session flag as they were, whatever it prints, and makes no index
\* where none was; a query that repeats the call before it prints what that
\* call printed.
C23_QueryReadOnly ==
    [][(mainPc = "idle" /\ request'.live /\ IsAsk(request'.argv1)) =>
          /\ index' = index /\ workspace' = workspace /\ flag' = flag
          /\ ~index.exists => ~index'.exists
          /\ (request = request' /\ mainPc' = "idle") => out' = out]_vars

\* A query answered in a process that has ingested, with a directory left
\* at the clone workspace.
C23_Witness ==
    /\ request.live /\ IsAsk(request.argv1)
    /\ out.kind = "answer"
    /\ flag /\ index.exists /\ workspace.exists

\* The text of the request begins, ignoring letter case, with the marker.
Marked(argv1, marker) ==
    argv1 # NoArg /\ StartsWith(Lower(Strip(argv1)), marker)

\* The question the printed result carries, for the three query outcomes.
PrintedQuestion ==
    IF out.kind = "answer"
    THEN {part.text : part \in {p \in {out.instruction[i] : i \in 1..Len(out.instruction)} :
                                    p.t = "question"}}
    ELSE {out.response}

\* C24: a call whose text begins with "ask:" in any letter case ends with one
\* of the three query outcomes, carrying the text after the marker, and never
\* with the failure payload; a call whose text begins with "scrape" or "load"
\* in any letter case is run as an ingestion.
C24_DispatchTotal ==
    (request.live /\ mainPc \in {"idle", "exited"}) =>
        /\ Marked(request.argv1, ASK) =>
              /\ out.kind \in {"no_index", "empty", "answer"}
              /\ PrintedQuestion = {Asked(request.argv1)}
        /\ (Marked(request.argv1, SCRAPE) \/ Marked(request.argv1, LOAD)) =>
              \/ out.kind \in {"skipped", "indexed"}
              \/ out \in {Failure(NoUrlsText), Failure(NoContentText),
                          Failure(NotFoundText)}

====
